---- MODULE Spec2Model ----
(***************************************************************************)
(* WinampControls: the WinampStore (Flux store with optimistic media       *)
(* actions and a 1000ms polling timer) and the WinampClient (HttpQ remote  *)
(* client with a consecutive-failure counter).                             *)
(*                                                                         *)
(* One step of the model is one event-loop turn: a synchronous call from   *)
(* the UI, a timer callback up to its first network await, or the arrival  *)
(* of one HTTP response together with every continuation that runs before  *)
(* the next network await.  The remote player is not modelled: every       *)
(* response is a nondeterministic choice.                                  *)
(***************************************************************************)
EXTENDS Integers, Sequences, FiniteSets, TLC

\* ---- bounds of the model ------------------------------------------------
MaxTime == 1
MaxVolume == 1
MaxPos == 1
MaxFailures == 8
MaxClients == 1
MaxTicks == 1
MaxActions == 1
MaxProbes == 1
MaxSeeks == 2
MaxStreak == 5
StaleAge == 1
MaxOverlap == 2

\* ---- program constants --------------------------------------------------
maxConsecutiveFailures == 5
NumStateCalls == 10

NoTrack == "null"
Tracks == {NoTrack, "parsed", "meta"}
RepeatMode == {"off", "track", "playlist"}
PlaybackStatus == {0, 1, 3}
BooleanResponse == {0, 1}
Volumes == 0..MaxVolume
Positions == 0..MaxPos
EndpointName == {"prev", "next", "setVolume", "setPlaying", "setRepeat", "setShuffle", "seek"}

VARIABLES
    store,      \* the WinampStore instance's fields
    clients,    \* every WinampClient constructed so far (store.client indexes the current one)
    timers,     \* the interval timers the host has scheduled (ids)
    inflight,   \* async operations awaiting an HTTP response, in issue order
    now,        \* Date.now()
    last,       \* history: what the latest step did
    failedCalls,\* history: per client, the run of failed calls since its last
                \* success or reset, and whether a success began the run
    failedPolls,\* history: consecutive ticks whose fetch failed
    optimistic  \* history: the latest optimistic write no poll has been applied over

vars == <<store, clients, timers, inflight, now, last, failedCalls, failedPolls, optimistic>>

\* ---- WinampClient --------------------------------------------------------

\* the connection parameters (host, port, password) a client can hold:
\* 0 is the default configuration
Configs == 0..MaxClients

\* new WinampClient(fetchFn, config)
NewClient(config) ==
    [config |-> config, isConnectedState |-> FALSE, repeatMode |-> "off",
     consecutiveFailures |-> 0]

\* configure(config) resetting the failure counter as well
clientConfigure_resets(cl, config) ==
    [cl EXCEPT !.config = config, !.isConnectedState = FALSE,
               !.consecutiveFailures = 0]

\* configure(config) of the client
clientConfigure(cl, config) ==
    [cl EXCEPT !.config = config, !.isConnectedState = FALSE]

\* handleCallFailure: flags disconnected and counts; Throws says whether it
\* raised ConsecutiveFailuresError
handleCallFailure(cl) ==
    [cl EXCEPT !.isConnectedState = FALSE, !.consecutiveFailures = @ + 1]

Throws(cl) == cl.consecutiveFailures >= maxConsecutiveFailures

\* The error a handleCallFailure call leaves in flight: its own
\* ConsecutiveFailuresError, or else the error it was called for
Raise(cl, pendingError) ==
    IF Throws(cl) THEN [type |-> "fatal", failureCount |-> cl.consecutiveFailures]
    ELSE pendingError

OrdinaryError == [type |-> "ordinary", failureCount |-> 0]

\* call(): the response has a status other than 200 (vencordFetch turns a
\* transport failure into status -1).  handleCallFailure runs in the status
\* check and, the thrown error being caught by call's own catch, runs again.
callStatusFailure(cl) ==
    LET inTry == handleCallFailure(cl)
        thrown == Raise(inTry, OrdinaryError)
        inCatch == handleCallFailure(inTry)
    IN [client |-> inCatch, error |-> Raise(inCatch, thrown)]

\* call(): status 200: the counter is reset and the client marked connected
callSuccess(cl) ==
    [cl EXCEPT !.consecutiveFailures = 0, !.isConnectedState = TRUE]

\* call(): status 200 but parseResponse throws (getversion answering "0"):
\* the reset has already happened when the catch counts the failure
callDecodeFailure(cl) ==
    LET inCatch == handleCallFailure(callSuccess(cl))
    IN [client |-> inCatch, error |-> Raise(inCatch, OrdinaryError)]

\* resetFailureCount()
resetFailureCount(cl) == [cl EXCEPT !.consecutiveFailures = 0]

\* the repeat update never falling back to off
updateRepeat_keeps(cl, repeatFlag) == cl

\* the repeat update losing the remembered mode when the flag is on
updateRepeat_forgets(cl, repeatFlag) ==
    [cl EXCEPT !.repeatMode = IF repeatFlag = 1 THEN "playlist" ELSE "off"]

\* getPlayerState, after Promise.all: the one-bit flag against the remembered mode
updateRepeat(cl, repeatFlag) ==
    [cl EXCEPT !.repeatMode = IF repeatFlag = 1 THEN @ ELSE "off"]

\* setRepeat(mode), up to its network call
setRepeatLocal(cl, mode) == [cl EXCEPT !.repeatMode = mode]

\* getPlayerState's catch: flags disconnected and wraps whatever was thrown,
\* the fatal error included, in a plain Error
getPlayerStateCatch(cl) == [cl EXCEPT !.isConnectedState = FALSE]

WrappedError(error) == OrdinaryError

\* getTrackMetadata's catch: a failed hasid3tag or getid3tag yields {}
getTrackMetadataCatch == "none"

\* buildTrackInfo dropping the track when there is no metadata
buildTrackInfo_needsTags(metadata) ==
    IF metadata = "tags" THEN "meta" ELSE NoTrack

\* buildTrackInfo for a non-empty title or file: name and artist come from
\* the tags when there are any ("tags"), else from the parsed title
buildTrackInfo(metadata) ==
    IF metadata = "tags" THEN "meta" ELSE "parsed"

\* the PlayerState getPlayerState returns
PlayerState(cl, trk, status, position, volume, shuffleFlag) ==
    [track |-> trk,
     isPlaying |-> status = 1,
     position |-> position,
     volume |-> volume,
     repeat |-> cl.repeatMode,
     shuffle |-> shuffleFlag = 1,
     isConnected |-> cl.isConnectedState]

\* ---- WinampStore ---------------------------------------------------------

\* the setter without the anchor
setPosition_keepsAnchor(s, p, t) == [s EXCEPT !.mPosition = p]

\* set position(p)
setPosition(s, p, t) == [s EXCEPT !.mPosition = p, !._start = t]

\* get position(), read at time t
position(s, t) == s.mPosition + (IF s.isPlaying THEN t - s._start ELSE 0)

\* the Flux handler without its volume assignment
WINAMP_PLAYER_STATE_keepsVolume(s, e, t) ==
    [setPosition(s, e.position, t) EXCEPT
        !.track = e.track,
        !.isPlaying = e.isPlaying,
        !.repeat = e.repeat,
        !.shuffle = e.shuffle,
        !.isSettingPosition = FALSE]

\* the Flux handler leaving a seek in progress marked as such
WINAMP_PLAYER_STATE_keepsSeekFlag(s, e, t) ==
    [setPosition(s, e.position, t) EXCEPT
        !.track = e.track,
        !.isPlaying = e.isPlaying,
        !.volume = e.volume,
        !.repeat = e.repeat,
        !.shuffle = e.shuffle]

\* the Flux handler without its shuffle assignment
WINAMP_PLAYER_STATE_keepsShuffle(s, e, t) ==
    [setPosition(s, e.position, t) EXCEPT
        !.track = e.track,
        !.isPlaying = e.isPlaying,
        !.volume = e.volume,
        !.repeat = e.repeat,
        !.isSettingPosition = FALSE]

\* the Flux handler without its track assignment
WINAMP_PLAYER_STATE_keepsTrack(s, e, t) ==
    [setPosition(s, e.position, t) EXCEPT
        !.isPlaying = e.isPlaying,
        !.volume = e.volume,
        !.repeat = e.repeat,
        !.shuffle = e.shuffle,
        !.isSettingPosition = FALSE]

\* the Flux handler without its position assignment
WINAMP_PLAYER_STATE_keepsPosition(s, e, t) ==
    [s EXCEPT
        !.track = e.track,
        !.isPlaying = e.isPlaying,
        !.volume = e.volume,
        !.repeat = e.repeat,
        !.shuffle = e.shuffle,
        !.isSettingPosition = FALSE]

\* the Flux handler without its isPlaying assignment
WINAMP_PLAYER_STATE_keepsPlaying(s, e, t) ==
    [setPosition(s, e.position, t) EXCEPT
        !.track = e.track,
        !.volume = e.volume,
        !.repeat = e.repeat,
        !.shuffle = e.shuffle,
        !.isSettingPosition = FALSE]

\* the Flux handler of WINAMP_PLAYER_STATE
WINAMP_PLAYER_STATE(s, e, t) ==
    [setPosition(s, e.position, t) EXCEPT
        !.track = e.track,
        !.isPlaying = e.isPlaying,
        !.volume = e.volume,
        !.repeat = e.repeat,
        !.shuffle = e.shuffle,
        !.isSettingPosition = FALSE]

\* the Flux handler ends with store.emitChange(), whatever it assigned
handlerEmitsChange(s, e, t) == TRUE

\* getCurrentState, after getPlayerState returned
getCurrentStateSync(s, state, t) ==
    IF state.track # NoTrack /\ ~s.isSettingPosition
    THEN setPosition(s, state.position, t)
    ELSE s

\* MEDIA_ACTIONS[endpoint].optimisticUpdate applied by applyStateUpdate
optimisticUpdate(s, endpoint, args, t) ==
    CASE endpoint = "setVolume" -> [s EXCEPT !.volume = args]
      [] endpoint = "setPlaying" ->
            [s EXCEPT !.isPlaying = args, !._start = IF args THEN t ELSE @]
      [] endpoint = "setRepeat" -> [s EXCEPT !.repeat = args]
      [] endpoint = "setShuffle" -> [s EXCEPT !.shuffle = args]
      [] endpoint = "seek" ->
            [s EXCEPT !.mPosition = args, !._start = t, !.isSettingPosition = TRUE]
      [] OTHER -> s

\* applyStateUpdate: Object.assign, then emitChange; notified is the state
\* the listeners are shown
applyStateUpdate(s, patched) == [store |-> patched, notified |-> patched]

\* executeMediaAction past the seek guard, up to its await: the optimistic
\* patch goes through applyStateUpdate, then the client method issues the
\* remote call; issuedWith is the store state at that moment
beginMediaAction_callFirst(s, endpoint, args, t) ==
    LET applied == applyStateUpdate(s, optimisticUpdate(s, endpoint, args, t)) IN
    [store |-> applied.store, notified |-> applied.notified, issuedWith |-> s]

beginMediaAction(s, endpoint, args, t) ==
    LET applied == applyStateUpdate(s, optimisticUpdate(s, endpoint, args, t)) IN
    [store |-> applied.store, notified |-> applied.notified,
     issuedWith |-> applied.store]

\* the seek guard applying the patch before it returns
rejectedSeek_patches(s, args, t) ==
    [store |-> applyStateUpdate(s, optimisticUpdate(s, "seek", args, t)).store,
     emitted |-> TRUE]

\* executeMediaAction("seek", args) while isSettingPosition: the guard
\* returns before anything is patched or emitted
rejectedSeek(s, args, t) == [store |-> s, emitted |-> FALSE]

\* the successful call leaving the seek marked in progress
actionSucceeded_keepsFlag(s, endpoint) == s

\* MEDIA_ACTIONS[endpoint].errorHandler, then the seek special case of the catch
errorHandler(s, endpoint, args) ==
    CASE endpoint = "setPlaying" -> [s EXCEPT !.isPlaying = ~args]
      [] endpoint = "seek" -> [s EXCEPT !.isSettingPosition = FALSE]
      [] OTHER -> s

NoError == [type |-> "none", failureCount |-> 0]

\* the catch block of executeMediaAction: error patch, then `throw error`
actionCatch_swallows(s, endpoint, args, error) ==
    [store |-> errorHandler(s, endpoint, args), thrown |-> NoError]

actionCatch(s, endpoint, args, error) ==
    [store |-> errorHandler(s, endpoint, args), thrown |-> error]

\* the `if (endpoint === "seek")` of the success path
actionSucceeded(s, endpoint) ==
    IF endpoint = "seek" THEN [s EXCEPT !.isSettingPosition = FALSE] ELSE s

ActionArgs(endpoint) ==
    CASE endpoint = "setVolume" -> Volumes
      [] endpoint = "setPlaying" -> BOOLEAN
      [] endpoint = "setRepeat" -> RepeatMode
      [] endpoint = "setShuffle" -> BOOLEAN
      [] endpoint = "seek" -> Positions
      [] OTHER -> {"void"}

\* ---- helpers --------------------------------------------------------------

Remove(seq, i) == SubSeq(seq, 1, i - 1) \o SubSeq(seq, i + 1, Len(seq))

InFlight(kind) == Cardinality({i \in 1..Len(inflight) : inflight[i].kind = kind})

Slots == 1..(MaxTicks + MaxActions + MaxProbes + MaxSeeks)

CanFail(c) == clients[c].consecutiveFailures + 2 <= MaxFailures

NoRun == [run |-> 0, afterSuccess |-> FALSE]
Succeeded(h) == [run |-> 0, afterSuccess |-> TRUE]
Failed(h) == [h EXCEPT !.run = @ + 1]

NoWrite == [endpoint |-> "none"]

\* the value of getPlayerState's local `repeat` before Promise.all resolved
NotRead == -1

\* Promise.all resolved with repeat_status answering repeatFlag; the tick
\* remembers (history) the mode the client held when the flag was read and
\* the mode the read left it with
RepeatRead(op, cl, cl2, repeatFlag) ==
    [op EXCEPT !.repeat = repeatFlag, !.modeAtRead = cl.repeatMode,
               !.modeAfterRead = cl2.repeatMode]

\* ---- initial state: the store is constructed and startStatePolling() ran --

Init ==
    /\ store = [track |-> NoTrack, isPlaying |-> FALSE, repeat |-> "off",
                shuffle |-> FALSE, volume |-> 0, mPosition |-> 0, _start |-> 0,
                isSettingPosition |-> FALSE, isPollingEnabled |-> TRUE,
                lastConsecutiveFailure |-> 0, pollingInterval |-> 1, client |-> 1]
    /\ clients = <<NewClient(0)>>
    /\ timers = {1}
    /\ inflight = <<>>
    /\ now = 0
    /\ last = [op |-> "init"]
    /\ failedCalls = <<NoRun>>
    /\ failedPolls = 0
    /\ optimistic = NoWrite

\* ---- polling lifecycle ----------------------------------------------------

\* startStatePolling() without its clearInterval
startStatePolling_leaks(s, tms) ==
    LET id == CHOOSE n \in 1..(Cardinality(tms) + 1) : n \notin tms
    IN [store |-> [s EXCEPT !.isPollingEnabled = TRUE,
                            !.lastConsecutiveFailure = 0,
                            !.pollingInterval = id],
        timers |-> tms \cup {id}]

\* startStatePolling(): clears the stored interval, enables polling, forgets
\* the last failure and schedules a new interval
startStatePolling(s, tms) ==
    LET cleared == IF s.pollingInterval # 0 THEN tms \ {s.pollingInterval} ELSE tms
        id == CHOOSE n \in 1..(Cardinality(cleared) + 1) : n \notin cleared
    IN [store |-> [s EXCEPT !.isPollingEnabled = TRUE,
                            !.lastConsecutiveFailure = 0,
                            !.pollingInterval = id],
        timers |-> cleared \cup {id}]

\* stopStatePolling()
stopStatePolling(s, tms) ==
    [store |-> [s EXCEPT !.pollingInterval = 0, !.isPollingEnabled = FALSE],
     timers |-> IF s.pollingInterval # 0 THEN tms \ {s.pollingInterval} ELSE tms]

\* configure(config): a new client replaces the old one, polling restarts
configure(s, tms, newClient) ==
    startStatePolling([s EXCEPT !.client = newClient,
                                !.isPollingEnabled = TRUE,
                                !.lastConsecutiveFailure = 0], tms)

StartStatePolling ==
    LET r == startStatePolling(store, timers) IN
    /\ store' = r.store
    /\ timers' = r.timers
    /\ last' = [op |-> "startStatePolling", had |-> store.pollingInterval]
    /\ UNCHANGED <<clients, inflight, now, failedCalls, failedPolls, optimistic>>

StopStatePolling ==
    LET r == stopStatePolling(store, timers) IN
    /\ store' = r.store
    /\ timers' = r.timers
    /\ last' = [op |-> "stopStatePolling"]
    /\ UNCHANGED <<clients, inflight, now, failedCalls, failedPolls, optimistic>>

Configure ==
    /\ Len(clients) <= MaxClients
    /\ LET r == configure(store, timers, Len(clients) + 1) IN
       /\ store' = r.store
       /\ timers' = r.timers
    /\ \E config \in Configs :
        /\ clients' = Append(clients, NewClient(config))
        /\ last' = [op |-> "configure", config |-> config]
    /\ failedCalls' = Append(failedCalls, NoRun)
    /\ UNCHANGED <<inflight, now, failedPolls, optimistic>>

\* ---- the polling tick -----------------------------------------------------

\* the interval callback, up to the network calls of getPlayerState
TimerFire(id, maxTicks) ==
    /\ id \in timers
    /\ IF ~store.isPollingEnabled
       THEN /\ last' = [op |-> "tickSkipped"]
            /\ UNCHANGED inflight
       ELSE /\ InFlight("tick") < maxTicks
            /\ inflight' = Append(inflight,
                  [kind |-> "tick", c |-> store.client, startedAt |-> now,
                   phase |-> "state", pending |-> NumStateCalls, rejected |-> FALSE,
                   repeat |-> NotRead, modeAtRead |-> "off", modeAfterRead |-> "off",
                   repeatWritten |-> FALSE])
            /\ last' = [op |-> "tickStarted"]
    /\ UNCHANGED <<store, clients, timers, now, failedCalls, failedPolls, optimistic>>

\* getCurrentState's catch: every error of getPlayerState is logged and
\* swallowed; the caller gets null and nothing is thrown
getCurrentStateCatch(error) == [thrown |-> FALSE, error |-> error]

DisconnectedState ==
    [track |-> NoTrack, volume |-> 0, isPlaying |-> FALSE, repeat |-> "off",
     shuffle |-> FALSE, position |-> 0, isConnected |-> FALSE]

\* the catch block of the interval callback
pollCatch(s, error, t) ==
    IF error.type = "fatal"
    THEN WINAMP_PLAYER_STATE(
            [s EXCEPT !.lastConsecutiveFailure = error.failureCount,
                      !.isPollingEnabled = FALSE],
            DisconnectedState, t)
    ELSE s

\* the tick as if getPlayerState's error reached its catch block
pollFailed_suspends(s, error, t) == pollCatch(s, error, t)

\* the tick as if every failed fetch showed the disconnected snapshot
pollFailed_disconnects(s, error, t) == WINAMP_PLAYER_STATE(s, DisconnectedState, t)

\* the tick after getPlayerState threw `error`
pollFailed(s, error, t) ==
    LET outcome == getCurrentStateCatch(WrappedError(error)) IN
    IF outcome.thrown THEN pollCatch(s, outcome.error, t) ELSE s

\* the tick after getPlayerState returned: getCurrentState syncs the
\* position, the callback dispatches and the Flux handler runs
PollApplied(op, cl, trk) ==
    \E status \in PlaybackStatus, pos \in Positions, vol \in Volumes,
       shuffleFlag \in BooleanResponse :
        LET state == PlayerState(cl, trk, status, pos, vol, shuffleFlag) IN
        /\ store' = WINAMP_PLAYER_STATE(getCurrentStateSync(store, state, now), state, now)
        /\ last' = [op |-> "pollApplied", c |-> op.c, e |-> state,
                    startedAt |-> op.startedAt, over |-> optimistic,
                    enabled |-> store.isPollingEnabled,
                    changed |-> store' # store,
                    emitted |-> handlerEmitsChange(store, state, now),
                    at |-> now, after |-> failedPolls,
                    repeat |-> op.repeat, modeAtRead |-> op.modeAtRead,
                    modeAfterRead |-> op.modeAfterRead,
                    repeatWritten |-> op.repeatWritten]
        /\ failedPolls' = 0
        /\ optimistic' = NoWrite

\* a call of client c answered and nothing is applied yet; `issued` names
\* the call getTrackMetadata issues next on the same client, if any
CallOk(c, issued) ==
    /\ last' = [op |-> "callOk", c |-> c, issued |-> issued]
    /\ UNCHANGED <<store, failedPolls, optimistic>>

IsTick(i, phase) ==
    /\ i \in 1..Len(inflight)
    /\ inflight[i].kind = "tick"
    /\ inflight[i].phase = phase

\* one of the ten calls of Promise.all answers with status 200
StateCallOk(i) ==
    /\ IsTick(i, "state")
    /\ LET op == inflight[i]
           cl == callSuccess(clients[op.c]) IN
       /\ failedCalls' = [failedCalls EXCEPT ![op.c] = Succeeded(@)]
       /\ IF op.pending > 1
          THEN /\ inflight' = [inflight EXCEPT ![i].pending = @ - 1]
               /\ clients' = [clients EXCEPT ![op.c] = cl]
               /\ CallOk(op.c, "none")
          ELSE IF op.rejected
          THEN /\ inflight' = Remove(inflight, i)
               /\ clients' = [clients EXCEPT ![op.c] = cl]
               /\ CallOk(op.c, "none")
          ELSE \E repeatFlag \in BooleanResponse, hasTitleOrFile \in BOOLEAN :
                LET cl2 == updateRepeat(cl, repeatFlag)
                    op2 == RepeatRead(op, cl, cl2, repeatFlag) IN
                /\ clients' = [clients EXCEPT ![op.c] = cl2]
                /\ IF hasTitleOrFile
                   THEN /\ inflight' = [inflight EXCEPT
                                            ![i] = [op2 EXCEPT !.pending = 0,
                                                               !.phase = "hastag"]]
                        /\ CallOk(op.c, "hasid3tag")
                   ELSE /\ inflight' = Remove(inflight, i)
                        /\ PollApplied(op2, cl2, NoTrack)
    /\ UNCHANGED <<timers, now>>

\* one of the ten calls of Promise.all fails; the first failure rejects
\* Promise.all while the other calls stay in flight
StateCallFail(i) ==
    /\ IsTick(i, "state")
    /\ CanFail(inflight[i].c)
    /\ LET op == inflight[i]
           r == callStatusFailure(clients[op.c]) IN
       /\ failedCalls' = [failedCalls EXCEPT ![op.c] = Failed(@)]
       /\ inflight' = IF op.pending > 1
                      THEN [inflight EXCEPT ![i].pending = @ - 1, ![i].rejected = TRUE]
                      ELSE Remove(inflight, i)
       /\ IF op.rejected
          THEN /\ clients' = [clients EXCEPT ![op.c] = r.client]
               /\ last' = [op |-> "callFailed", c |-> op.c, error |-> r.error,
                           by |-> "tick", pollFailed |-> FALSE]
               /\ UNCHANGED <<store, failedPolls>>
          ELSE /\ clients' = [clients EXCEPT ![op.c] = getPlayerStateCatch(r.client)]
               /\ store' = pollFailed(store, r.error, now)
               /\ last' = [op |-> "callFailed", c |-> op.c, error |-> r.error,
                           by |-> "tick", pollFailed |-> TRUE]
               /\ failedPolls' = IF failedPolls < MaxStreak THEN failedPolls + 1
                                 ELSE failedPolls
    /\ UNCHANGED <<timers, now, optimistic>>

\* getTrackMetadata: hasid3tag answers
HasTagOk(i) ==
    /\ IsTick(i, "hastag")
    /\ LET op == inflight[i]
           cl == callSuccess(clients[op.c]) IN
       /\ failedCalls' = [failedCalls EXCEPT ![op.c] = Succeeded(@)]
       /\ clients' = [clients EXCEPT ![op.c] = cl]
       /\ \E hasTag \in BooleanResponse :
            IF hasTag = 1
            THEN /\ inflight' = [inflight EXCEPT ![i].phase = "id3"]
                 /\ CallOk(op.c, "getid3tag")
            ELSE /\ inflight' = Remove(inflight, i)
                 /\ PollApplied(op, cl, buildTrackInfo("none"))
    /\ UNCHANGED <<timers, now>>

\* getTrackMetadata: getid3tag answers; the tags hold a title or do not
Id3Ok(i) ==
    /\ IsTick(i, "id3")
    /\ LET op == inflight[i]
           cl == callSuccess(clients[op.c]) IN
       /\ failedCalls' = [failedCalls EXCEPT ![op.c] = Succeeded(@)]
       /\ clients' = [clients EXCEPT ![op.c] = cl]
       /\ inflight' = Remove(inflight, i)
       /\ \E metadata \in {"tags", "none"} :
            PollApplied(op, cl, buildTrackInfo(metadata))
    /\ UNCHANGED <<timers, now>>

\* getTrackMetadata: hasid3tag or getid3tag fails; its catch returns {} and
\* the track is built from the parsed title
MetadataFail(i) ==
    /\ (IsTick(i, "hastag") \/ IsTick(i, "id3"))
    /\ CanFail(inflight[i].c)
    /\ LET op == inflight[i]
           r == callStatusFailure(clients[op.c]) IN
       /\ failedCalls' = [failedCalls EXCEPT ![op.c] = Failed(@)]
       /\ clients' = [clients EXCEPT ![op.c] = r.client]
       /\ inflight' = Remove(inflight, i)
       /\ PollApplied(op, r.client, buildTrackInfo(getTrackMetadataCatch))
    /\ UNCHANGED <<timers, now>>

\* every call the tick still waits for answers with status 200, back to back:
\* the rest of Promise.all, then hasid3tag and getid3tag when there is a title
\* or a file (trk says how the track came out), and the snapshot is applied
PollOk(i) ==
    /\ IsTick(i, "state")
    /\ ~inflight[i].rejected
    /\ LET op == inflight[i] IN
       \E repeatFlag \in BooleanResponse, trk \in Tracks :
            LET cl == updateRepeat(callSuccess(clients[op.c]), repeatFlag) IN
            /\ clients' = [clients EXCEPT ![op.c] = cl]
            /\ PollApplied(RepeatRead(op, clients[op.c], cl, repeatFlag), cl, trk)
    /\ failedCalls' = [failedCalls EXCEPT ![inflight[i].c] = Succeeded(@)]
    /\ inflight' = Remove(inflight, i)
    /\ UNCHANGED <<timers, now>>

\* ---- media actions --------------------------------------------------------

\* history: setRepeat ran on client c while a tick of c was between reading
\* the repeat flag and building its snapshot
RepeatWritten(c) ==
    [j \in 1..Len(inflight) |->
        IF /\ inflight[j].kind = "tick"
           /\ inflight[j].c = c
           /\ inflight[j].phase \in {"hastag", "id3"}
        THEN [inflight[j] EXCEPT !.repeatWritten = TRUE]
        ELSE inflight[j]]

\* executeMediaAction(endpoint, args), up to the await of the client call
ExecuteMediaAction(endpoint, args, maxActions) ==
    /\ IF endpoint = "seek" /\ store.isSettingPosition
       THEN /\ LET rejected == rejectedSeek(store, args, now) IN
               /\ store' = rejected.store
               /\ last' = [op |-> "seekIgnored", args |-> args,
                           emitted |-> rejected.emitted]
            /\ UNCHANGED <<clients, inflight, optimistic>>
       ELSE /\ InFlight("action") < maxActions
            /\ LET begun == beginMediaAction(store, endpoint, args, now) IN
               /\ store' = begun.store
               /\ last' = [op |-> "actionStarted", endpoint |-> endpoint,
                           args |-> args, notified |-> begun.notified,
                           issuedWith |-> begun.issuedWith]
            /\ clients' = IF endpoint = "setRepeat"
                          THEN [clients EXCEPT ![store.client] = setRepeatLocal(@, args)]
                          ELSE clients
            /\ inflight' = Append(
                  IF endpoint = "setRepeat" THEN RepeatWritten(store.client) ELSE inflight,
                  [kind |-> "action", c |-> store.client, endpoint |-> endpoint,
                   args |-> args, wasPlaying |-> store.isPlaying])
            /\ optimistic' = IF endpoint \in {"prev", "next"} THEN optimistic
                             ELSE [endpoint |-> endpoint, args |-> args, t |-> now]
    /\ UNCHANGED <<timers, now, failedCalls, failedPolls>>

IsAction(i) == i \in 1..Len(inflight) /\ inflight[i].kind = "action"

\* the action's client call answers with status 200
ActionOk(i) ==
    /\ IsAction(i)
    /\ LET op == inflight[i] IN
       /\ clients' = [clients EXCEPT ![op.c] = callSuccess(@)]
       /\ failedCalls' = [failedCalls EXCEPT ![op.c] = Succeeded(@)]
       /\ store' = actionSucceeded(store, op.endpoint)
       /\ last' = [op |-> "actionOk", endpoint |-> op.endpoint, args |-> op.args]
    /\ inflight' = Remove(inflight, i)
    /\ UNCHANGED <<timers, now, failedPolls, optimistic>>

\* the action's client call fails: error patch, then the error is re-thrown
ActionFail(i) ==
    /\ IsAction(i)
    /\ CanFail(inflight[i].c)
    /\ LET op == inflight[i]
           r == callStatusFailure(clients[op.c]) IN
       /\ clients' = [clients EXCEPT ![op.c] = r.client]
       /\ failedCalls' = [failedCalls EXCEPT ![op.c] = Failed(@)]
       /\ LET caught == actionCatch(store, op.endpoint, op.args, r.error) IN
          /\ store' = caught.store
          /\ last' = [op |-> "callFailed", c |-> op.c, error |-> r.error,
                      by |-> op.endpoint, pollFailed |-> FALSE,
                      args |-> op.args, wasPlaying |-> op.wasPlaying,
                      thrown |-> caught.thrown]
    /\ inflight' = Remove(inflight, i)
    /\ UNCHANGED <<timers, now, failedPolls, optimistic>>

\* ---- reconnection ---------------------------------------------------------

\* attemptReconnection(), up to the await of isConnected()
AttemptReconnection(maxProbes) ==
    /\ InFlight("reconnect") < maxProbes
    /\ clients' = [clients EXCEPT ![store.client] = resetFailureCount(@)]
    /\ failedCalls' = [failedCalls EXCEPT ![store.client] = NoRun]
    /\ inflight' = Append(inflight,
          [kind |-> "reconnect", c |-> store.client,
           wasEnabled |-> store.isPollingEnabled])
    /\ last' = [op |-> "reconnectStarted"]
    /\ UNCHANGED <<store, timers, now, failedPolls, optimistic>>

IsReconnect(i) == i \in 1..Len(inflight) /\ inflight[i].kind = "reconnect"

\* the body of attemptReconnection after isConnected() answered
reconnected(s, isConnected) ==
    IF isConnected
    THEN [s EXCEPT !.isPollingEnabled = TRUE, !.lastConsecutiveFailure = 0]
    ELSE s

Reconnected(op, result) ==
    /\ store' = reconnected(store, result)
    /\ last' = [op |-> "reconnect", result |-> result, wasEnabled |-> op.wasEnabled,
                enabled |-> store.isPollingEnabled,
                failure |-> store.lastConsecutiveFailure]

\* getversion answers with status 200 and a version
ReconnectOk(i) ==
    /\ IsReconnect(i)
    /\ LET op == inflight[i] IN
       /\ clients' = [clients EXCEPT ![op.c] = callSuccess(@)]
       /\ failedCalls' = [failedCalls EXCEPT ![op.c] = Succeeded(@)]
       /\ Reconnected(op, TRUE)
    /\ inflight' = Remove(inflight, i)
    /\ UNCHANGED <<timers, now, failedPolls, optimistic>>

\* getversion answers with status 200 and "0": parseResponse throws
ReconnectDecodeFail(i) ==
    /\ IsReconnect(i)
    /\ LET op == inflight[i]
           r == callDecodeFailure(clients[op.c]) IN
       /\ clients' = [clients EXCEPT ![op.c] = r.client]
       /\ failedCalls' = [failedCalls EXCEPT ![op.c] = Failed(@)]
       /\ Reconnected(op, FALSE)
    /\ inflight' = Remove(inflight, i)
    /\ UNCHANGED <<timers, now, failedPolls, optimistic>>

\* getversion fails
ReconnectFail(i) ==
    /\ IsReconnect(i)
    /\ CanFail(inflight[i].c)
    /\ LET op == inflight[i]
           r == callStatusFailure(clients[op.c]) IN
       /\ clients' = [clients EXCEPT ![op.c] = r.client]
       /\ failedCalls' = [failedCalls EXCEPT ![op.c] = Failed(@)]
       /\ Reconnected(op, FALSE)
    /\ inflight' = Remove(inflight, i)
    /\ UNCHANGED <<timers, now, failedPolls, optimistic>>

\* ---- the client's own configure ------------------------------------------

\* configure(config) called on client c
ClientConfigure(c, config) ==
    /\ c \in 1..Len(clients)
    /\ clients' = [clients EXCEPT ![c] = clientConfigure(@, config)]
    /\ last' = [op |-> "clientConfigure", c |-> c, config |-> config]
    /\ UNCHANGED <<store, timers, inflight, now, failedCalls, failedPolls, optimistic>>

\* ---- testConnection ------------------------------------------------------

\* testConnection(), up to the await of isConnected(): the failure counter
\* is left as it is
TestConnection(maxProbes) ==
    /\ InFlight("probe") < maxProbes
    /\ inflight' = Append(inflight, [kind |-> "probe", c |-> store.client])
    /\ last' = [op |-> "testStarted"]
    /\ UNCHANGED <<store, clients, timers, now, failedCalls, failedPolls, optimistic>>

IsProbe(i) == i \in 1..Len(inflight) /\ inflight[i].kind = "probe"

\* getversion answers with status 200 and a version: isConnected() is true
TestOk(i) ==
    /\ IsProbe(i)
    /\ LET op == inflight[i] IN
       /\ clients' = [clients EXCEPT ![op.c] = callSuccess(@)]
       /\ failedCalls' = [failedCalls EXCEPT ![op.c] = Succeeded(@)]
       /\ last' = [op |-> "testConnection", c |-> op.c, result |-> TRUE]
    /\ inflight' = Remove(inflight, i)
    /\ UNCHANGED <<store, timers, now, failedPolls, optimistic>>

\* getversion answers with status 200 and "0": parseResponse throws, call
\* counts the failure and isConnected() turns the error into false
TestDecodeFail(i) ==
    /\ IsProbe(i)
    /\ failedCalls[inflight[i].c].run < MaxStreak
    /\ LET op == inflight[i]
           r == callDecodeFailure(clients[op.c]) IN
       /\ clients' = [clients EXCEPT ![op.c] = r.client]
       /\ failedCalls' = [failedCalls EXCEPT ![op.c] = Failed(@)]
       /\ last' = [op |-> "callFailed", c |-> op.c, error |-> r.error,
                   by |-> "testConnection", pollFailed |-> FALSE,
                   decode |-> TRUE]
    /\ inflight' = Remove(inflight, i)
    /\ UNCHANGED <<store, timers, now, failedPolls, optimistic>>

\* getversion fails
TestFail(i) ==
    /\ IsProbe(i)
    /\ CanFail(inflight[i].c)
    /\ LET op == inflight[i]
           r == callStatusFailure(clients[op.c]) IN
       /\ clients' = [clients EXCEPT ![op.c] = r.client]
       /\ failedCalls' = [failedCalls EXCEPT ![op.c] = Failed(@)]
       /\ last' = [op |-> "callFailed", c |-> op.c, error |-> r.error,
                   by |-> "testConnection", pollFailed |-> FALSE,
                   decode |-> FALSE]
    /\ inflight' = Remove(inflight, i)
    /\ UNCHANGED <<store, timers, now, failedPolls, optimistic>>

\* ---- the clock ------------------------------------------------------------

Advance ==
    /\ now < MaxTime
    /\ now' = now + 1
    /\ UNCHANGED <<store, clients, timers, inflight, last, failedCalls, failedPolls,
                   optimistic>>

\* ---- specifications -------------------------------------------------------

\* the whole plugin
Next ==
    \/ StartStatePolling
    \/ StopStatePolling
    \/ Configure
    \/ \E id \in timers : TimerFire(id, MaxTicks)
    \/ \E i \in Slots : StateCallOk(i)
    \/ \E i \in Slots : StateCallFail(i)
    \/ \E i \in Slots : HasTagOk(i)
    \/ \E i \in Slots : Id3Ok(i)
    \/ \E i \in Slots : MetadataFail(i)
    \/ \E i \in Slots : PollOk(i)
    \/ \E endpoint \in EndpointName : \E args \in ActionArgs(endpoint) :
            ExecuteMediaAction(endpoint, args, MaxActions)
    \/ \E i \in Slots : ActionOk(i)
    \/ \E i \in Slots : ActionFail(i)
    \/ AttemptReconnection(MaxProbes)
    \/ \E i \in Slots : ReconnectOk(i)
    \/ \E i \in Slots : ReconnectDecodeFail(i)
    \/ \E i \in Slots : ReconnectFail(i)
    \/ TestConnection(MaxProbes)
    \/ \E i \in Slots : TestOk(i)
    \/ \E i \in Slots : TestDecodeFail(i)
    \/ \E i \in Slots : TestFail(i)
    \/ \E c \in 1..(MaxClients + 1), config \in Configs : ClientConfigure(c, config)
    \/ Advance

Spec == Init /\ [][Next]_vars

\* the polling timer against a remote that answers or fails, call by call
NextPolling ==
    \/ \E id \in timers : TimerFire(id, MaxTicks)
    \/ \E i \in Slots : StateCallOk(i)
    \/ \E i \in Slots : StateCallFail(i)
    \/ \E i \in Slots : HasTagOk(i)
    \/ \E i \in Slots : Id3Ok(i)
    \/ \E i \in Slots : MetadataFail(i)

SpecPolling == Init /\ [][NextPolling]_vars

\* polls whose calls answer back to back, with the lifecycle calls of the
\* store: start, stop, configure, reconnect
NextLifecycle ==
    \/ StartStatePolling
    \/ StopStatePolling
    \/ Configure
    \/ \E id \in timers : TimerFire(id, MaxTicks)
    \/ \E i \in Slots : PollOk(i)
    \/ AttemptReconnection(MaxProbes)
    \/ \E i \in Slots : ReconnectOk(i)
    \/ \E i \in Slots : ReconnectDecodeFail(i)
    \/ \E i \in Slots : ReconnectFail(i)

SpecLifecycle == Init /\ [][NextLifecycle]_vars

\* the polling timer against a failing remote, call by call, with reconnect()
NextRecovery ==
    \/ \E id \in timers : TimerFire(id, MaxTicks)
    \/ \E i \in Slots : StateCallOk(i)
    \/ \E i \in Slots : StateCallFail(i)
    \/ \E i \in Slots : HasTagOk(i)
    \/ \E i \in Slots : Id3Ok(i)
    \/ \E i \in Slots : MetadataFail(i)
    \/ AttemptReconnection(MaxProbes)
    \/ \E i \in Slots : ReconnectOk(i)
    \/ \E i \in Slots : ReconnectDecodeFail(i)
    \/ \E i \in Slots : ReconnectFail(i)

SpecRecovery == Init /\ [][NextRecovery]_vars

\* polls whose calls answer back to back, against the media actions of the
\* UI, with the clock
NextMerge ==
    \/ \E id \in timers : TimerFire(id, MaxTicks)
    \/ \E i \in Slots : PollOk(i)
    \/ \E endpoint \in EndpointName : \E args \in ActionArgs(endpoint) :
            ExecuteMediaAction(endpoint, args, MaxActions)
    \/ \E i \in Slots : ActionOk(i)
    \/ Advance

SpecMerge == Init /\ [][NextMerge]_vars

\* the media actions of the UI against a remote that answers or fails
NextActions ==
    \/ \E endpoint \in EndpointName : \E args \in ActionArgs(endpoint) :
            ExecuteMediaAction(endpoint, args, MaxActions)
    \/ \E i \in Slots : ActionOk(i)
    \/ \E i \in Slots : ActionFail(i)
    \/ Advance

SpecActions == Init /\ [][NextActions]_vars

\* seeks against polls
NextSeek ==
    \/ \E id \in timers : TimerFire(id, MaxTicks)
    \/ \E i \in Slots : PollOk(i)
    \/ \E args \in Positions : ExecuteMediaAction("seek", args, MaxSeeks)
    \/ \E i \in Slots : ActionOk(i)
    \/ \E i \in Slots : ActionFail(i)

SpecSeek == Init /\ [][NextSeek]_vars

\* volume changes and seeks whose calls succeed, against polls, with the clock
NextOverwrite ==
    \/ \E id \in timers : TimerFire(id, MaxTicks)
    \/ \E i \in Slots : PollOk(i)
    \/ \E endpoint \in {"setVolume", "seek"} : \E args \in ActionArgs(endpoint) :
            ExecuteMediaAction(endpoint, args, MaxActions)
    \/ \E i \in Slots : ActionOk(i)
    \/ Advance

SpecOverwrite == Init /\ [][NextOverwrite]_vars

\* testConnection() against a remote whose getversion answers with a
\* version or with "0", beside polls whose calls answer back to back
NextProbe ==
    \/ \E id \in timers : TimerFire(id, MaxTicks)
    \/ \E i \in Slots : PollOk(i)
    \/ TestConnection(MaxProbes)
    \/ \E i \in Slots : TestOk(i)
    \/ \E i \in Slots : TestDecodeFail(i)

SpecProbe == Init /\ [][NextProbe]_vars

\* reconfiguring and stopping the store while the calls of a tick answer
\* one by one
NextConfigure ==
    \/ StopStatePolling
    \/ Configure
    \/ \E id \in timers : TimerFire(id, MaxTicks)
    \/ \E i \in Slots : StateCallOk(i)
    \/ \E i \in Slots : HasTagOk(i)
    \/ \E i \in Slots : Id3Ok(i)

SpecConfigure == Init /\ [][NextConfigure]_vars

\* one client: calls that answer or fail (setRepeat, the reconnect probe),
\* resetFailureCount (by attemptReconnection) and the client's configure
NextClient ==
    \/ \E args \in RepeatMode : ExecuteMediaAction("setRepeat", args, MaxActions)
    \/ \E i \in Slots : ActionOk(i)
    \/ \E i \in Slots : ActionFail(i)
    \/ AttemptReconnection(MaxProbes)
    \/ \E i \in Slots : ReconnectOk(i)
    \/ \E i \in Slots : ReconnectDecodeFail(i)
    \/ \E i \in Slots : ReconnectFail(i)
    \/ \E c \in 1..(MaxClients + 1), config \in Configs : ClientConfigure(c, config)

SpecClient == Init /\ [][NextClient]_vars

\* fetches that outlast the tick period: up to MaxOverlap ticks in flight,
\* answered in any order, with the clock
NextOverlap ==
    \/ \E id \in timers : TimerFire(id, MaxOverlap)
    \/ \E i \in Slots : PollOk(i)
    \/ Advance

SpecOverlap == Init /\ [][NextOverlap]_vars

\* setRepeat against polls whose calls answer one by one
NextRepeat ==
    \/ \E id \in timers : TimerFire(id, MaxTicks)
    \/ \E i \in Slots : StateCallOk(i)
    \/ \E i \in Slots : HasTagOk(i)
    \/ \E i \in Slots : Id3Ok(i)
    \/ \E args \in RepeatMode : ExecuteMediaAction("setRepeat", args, MaxActions)
    \/ \E i \in Slots : ActionOk(i)

SpecRepeat == Init /\ [][NextRepeat]_vars

\* an outage: the remote may fail any call until the clock reaches MaxTime
\* and answers every call from then on.  The interval timer keeps firing,
\* every fetch settles and time passes.
RemoteDown == now < MaxTime

OutageStateCallFail(i) == RemoteDown /\ StateCallFail(i)

OutageMetadataFail(i) == RemoteDown /\ MetadataFail(i)

Tick == \E id \in timers : TimerFire(id, MaxTicks)

Response ==
    \/ \E i \in Slots : StateCallOk(i)
    \/ \E i \in Slots : HasTagOk(i)
    \/ \E i \in Slots : Id3Ok(i)
    \/ \E i \in Slots : OutageStateCallFail(i)
    \/ \E i \in Slots : OutageMetadataFail(i)

NextOutage ==
    \/ Tick
    \/ Response
    \/ Advance

SpecOutage ==
    /\ Init
    /\ [][NextOutage]_vars
    /\ WF_vars(Tick)
    /\ WF_vars(Response)
    /\ WF_vars(Advance)

\* ---- properties -----------------------------------------------------------

\* the store field a media action writes optimistically, and the same field
\* of a poll snapshot
StoreField(s, endpoint) ==
    CASE endpoint = "setVolume" -> s.volume
      [] endpoint = "setPlaying" -> s.isPlaying
      [] endpoint = "setRepeat" -> s.repeat
      [] endpoint = "setShuffle" -> s.shuffle
      [] endpoint = "seek" -> s.mPosition

SnapshotField(e, endpoint) ==
    CASE endpoint = "setVolume" -> e.volume
      [] endpoint = "setPlaying" -> e.isPlaying
      [] endpoint = "setRepeat" -> e.repeat
      [] endpoint = "setShuffle" -> e.shuffle
      [] endpoint = "seek" -> e.position

\* the latest step applied a poll over an optimistic write it had not seen
\* applied over before
AppliedOverWrite == last.op = "pollApplied" /\ last.over.endpoint # "none"

\* the poll's value for the written field differs from the optimistic value
PolledDiffers == SnapshotField(last.e, last.over.endpoint) # last.over.args

C2_FiveFailedPollsSuspend ==
    failedPolls >= 5
        => ~store.isPollingEnabled /\ store.lastConsecutiveFailure = 5

\* C3: counting consecutive failed calls of a client from a counter of 0, the
\* 1st to 4th raise an ordinary error and the 5th raises the fatal fail-streak
\* error carrying count 5.
C3_FatalOnFifthFailure ==
    last.op = "callFailed" =>
        LET n == failedCalls[last.c].run IN
        /\ n < 5 => last.error.type = "ordinary"
        /\ n = 5 => last.error = [type |-> "fatal", failureCount |-> 5]

\* C4: after a successful call, each of up to 4 failed calls in a row raises
\* no fatal fail-streak error and polling is not suspended.
C4_SuccessResetsStreak ==
    (/\ last.op = "callFailed"
     /\ failedCalls[last.c].afterSuccess
     /\ failedCalls[last.c].run <= 4)
        => /\ last.error.type # "fatal"
           /\ store.isPollingEnabled
           /\ store.lastConsecutiveFailure = 0

\* C5: every client's consecutive-failure counter equals the number of its
\* failed calls since its last successful call or resetFailureCount.
C5_CounterCountsFailedCalls ==
    \A c \in 1..Len(clients) : clients[c].consecutiveFailures = failedCalls[c].run

C8_StaleTickDiscarded ==
    (last.op = "pollApplied" /\ (~last.enabled \/ last.c # store.client))
        => ~last.changed

\* C9: when a poll tick that started at or after an optimistic write
\* (t1 >= t0) is applied, the written field holds the polled value whatever
\* the optimistic value was, and no seek is left marked in progress to shield
\* the position.
C9_LaterPollApplied ==
    (AppliedOverWrite /\ last.startedAt >= last.over.t)
        => /\ StoreField(store, last.over.endpoint)
                = SnapshotField(last.e, last.over.endpoint)
           /\ ~store.isSettingPosition

C9_Witness ==
    /\ AppliedOverWrite
    /\ last.startedAt >= last.over.t
    /\ PolledDiffers
    /\ last.over.endpoint = "seek"

C12_OptimisticPatchFirst ==
    last.op = "actionStarted" =>
        /\ last.notified = store
        /\ last.issuedWith = store
        /\ last.endpoint \notin {"prev", "next"}
                => StoreField(store, last.endpoint) = last.args
        /\ \E i \in 1..Len(inflight) :
                /\ inflight[i].kind = "action"
                /\ inflight[i].endpoint = last.endpoint
                /\ inflight[i].args = last.args

C12_Witness ==
    /\ last.op = "actionStarted"
    /\ last.endpoint = "setVolume"
    /\ last.args = MaxVolume
    /\ store.volume = MaxVolume

\* C13: when the remote call of setPlaying(p) has just failed and no poll was
\* applied since the action was invoked, isPlaying is what it was immediately
\* before the action was invoked.
C13_SetPlayingRolledBack ==
    (/\ last.op = "callFailed"
     /\ last.by = "setPlaying"
     /\ optimistic.endpoint = "setPlaying")
        => store.isPlaying = last.wasPlaying

\* C14: when the remote call of an action has just failed, the error patch
\* of the action is in the store and the very error the client raised,
\* ordinary or fatal, was re-raised to the caller.
C14_ActionFailureReraised ==
    (last.op = "callFailed" /\ last.by \in EndpointName) =>
        /\ last.thrown = last.error
        /\ last.by = "setPlaying" => store.isPlaying = ~last.args
        /\ last.by = "seek" => ~store.isSettingPosition

C14_Witness ==
    /\ last.op = "callFailed"
    /\ last.by = "seek"
    /\ last.error.type = "fatal"
    /\ last.thrown.type = "fatal"

\* C15: at most one seek remote call is in flight at any time.
C15_OneSeekInFlight ==
    Cardinality({i \in 1..Len(inflight) :
                    inflight[i].kind = "action" /\ inflight[i].endpoint = "seek"}) <= 1

\* C16: over every step that leaves the store playing and is neither a seek
\* nor a pause, the effective position advances by exactly the time that
\* passed.
C16_PositionAdvancesWithClock ==
    [][(/\ store.isPlaying
        /\ store'.isPlaying
        /\ ~(store'.isSettingPosition /\ ~store.isSettingPosition))
            => position(store', now') - position(store, now) = now' - now]_vars

\* C17: every step that changes the raw position leaves the position anchor
\* at the current time.
C17_AnchorFollowsPosition ==
    [][store'.mPosition # store.mPosition => store'._start = now']_vars

C17_Witness ==
    /\ last.op = "pollApplied"
    /\ last.at = MaxTime
    /\ store.mPosition = MaxPos
    /\ store._start = MaxTime
    /\ optimistic = NoWrite

\* C18 (as stated): whenever a poll that read the remote repeat flag as 0 has
\* just been applied, the repeat mode of the store is off.
C18_RemoteOffForcesOff ==
    (last.op = "pollApplied" /\ last.repeat = 0) => store.repeat = "off"

\* C18 (amended): whenever a poll that read the remote repeat flag as 0 has
\* just been applied, and no setRepeat ran between the read of the flag and
\* the building of the snapshot, the repeat mode of the store is off, whatever
\* mode was held when the flag was read.
C18_RemoteOffForcesOffUnlessSet ==
    (last.op = "pollApplied" /\ last.repeat = 0 /\ ~last.repeatWritten)
        => store.repeat = "off" /\ clients[last.c].repeatMode = "off"

C18_Witness ==
    /\ last.op = "pollApplied"
    /\ last.repeat = 0
    /\ ~last.repeatWritten
    /\ last.modeAtRead = "track"
    /\ store.repeat = "off"

\* C19: a poll that read the remote repeat flag as 1 left the client's
\* remembered mode as it was at the read, and once the poll has just been
\* applied its snapshot reports the mode the client remembers.
C19_RemoteOnKeepsMode ==
    /\ \A i \in 1..Len(inflight) :
            (inflight[i].kind = "tick" /\ inflight[i].repeat = 1)
                => inflight[i].modeAfterRead = inflight[i].modeAtRead
    /\ (last.op = "pollApplied" /\ last.repeat = 1) =>
            /\ last.modeAfterRead = last.modeAtRead
            /\ last.e.repeat = clients[last.c].repeatMode

C19_Witness ==
    /\ last.op = "pollApplied"
    /\ last.repeat = 1
    /\ last.modeAtRead = "track"
    /\ last.e.repeat = "track"
    /\ ~last.repeatWritten

\* C20: when a poll is applied over an optimistic write that is StaleAge or
\* older at that time, the written field holds the polled value, also when it
\* differs from the optimistic value.
C20_StaleWriteOverwritten ==
    (AppliedOverWrite /\ last.at - last.over.t >= StaleAge)
        => StoreField(store, last.over.endpoint)
                = SnapshotField(last.e, last.over.endpoint)

C20_Witness ==
    /\ AppliedOverWrite
    /\ last.at - last.over.t >= StaleAge
    /\ PolledDiffers
    /\ last.over.endpoint = "setShuffle"

\* a seek call is in flight
SeekInFlight ==
    \E i \in 1..Len(inflight) :
        inflight[i].kind = "action" /\ inflight[i].endpoint = "seek"

\* C21: when a poll reporting position p has just been applied over a
\* seek(p) whose call succeeded, the raw position is p, no seek is marked in
\* progress and no optimistic write is left to shield the position; and a poll
\* applied with no optimistic write before it sets the raw position to the
\* position it reports.
C21_SeekConfirmedByPoll ==
    /\ (/\ AppliedOverWrite
        /\ last.over.endpoint = "seek"
        /\ ~SeekInFlight
        /\ last.e.position = last.over.args)
            => /\ store.mPosition = last.over.args
               /\ ~store.isSettingPosition
               /\ optimistic = NoWrite
    /\ (last.op = "pollApplied" /\ last.over = NoWrite)
            => /\ store.mPosition = last.e.position
               /\ ~store.isSettingPosition

C21_Witness ==
    /\ AppliedOverWrite
    /\ last.over.endpoint = "seek"
    /\ ~SeekInFlight
    /\ last.over.args = MaxPos
    /\ last.e.position = MaxPos
    /\ store.mPosition = MaxPos

\* the store shows exactly the six fields of snapshot e
ShowsSnapshot(s, e) ==
    /\ s.track = e.track
    /\ s.isPlaying = e.isPlaying
    /\ s.volume = e.volume
    /\ s.repeat = e.repeat
    /\ s.shuffle = e.shuffle
    /\ s.mPosition = e.position

\* C22: a step that applies a snapshot equal to the one applied before it,
\* with no optimistic write in between (the store still shows the earlier
\* snapshot), changes no field of the store and emits no change.
C22_SameSnapshotIdempotent ==
    [][(/\ last'.op = "pollApplied"
        /\ optimistic = NoWrite
        /\ store.track # NoTrack
        /\ ShowsSnapshot(store, last'.e))
            => store' = store /\ ~last'.emitted]_vars

\* C24: a step in which a poll tick's fetch fails with an ordinary error
\* changes nothing in the store (track, isPlaying, volume, repeat, shuffle,
\* position, isPollingEnabled, last fatal failure) and leaves polling enabled.
C24_FailedPollChangesNothing ==
    [][(/\ last'.op = "callFailed"
        /\ last'.pollFailed
        /\ last'.error.type = "ordinary")
            => store' = store /\ store'.isPollingEnabled]_vars

C24_Witness ==
    /\ last.op = "callFailed"
    /\ last.pollFailed
    /\ last.error.type = "ordinary"
    /\ store.track # NoTrack
    /\ store.volume = MaxVolume
    /\ store.isPollingEnabled
    /\ store.lastConsecutiveFailure = 0

\* C25: when a poll tick's fetch has just failed with the fatal fail-streak
\* error, the store shows the disconnected snapshot: no track, not playing,
\* volume 0, repeat off, shuffle off, raw position 0.
C25_FatalShowsDisconnected ==
    (last.op = "callFailed" /\ last.pollFailed /\ last.error.type = "fatal")
        => ShowsSnapshot(store, DisconnectedState)

\* C26: a call that fails at decoding counts toward the fail-streak like a
\* transport failure: the fifth of five consecutive decode-failing calls of a
\* client, with no successful call between them, raises the fatal error.
C26_DecodeFailuresReachFatal ==
    (/\ last.op = "callFailed"
     /\ last.by = "testConnection"
     /\ last.decode
     /\ failedCalls[last.c].run >= 5)
        => last.error.type = "fatal"

\* C27: right after the store's configure, polling is enabled, the last
\* fatal failure is cleared, the store holds a scheduled timer and its client
\* has the new connection parameters; and every call a tick issues uses the
\* connection parameters of the store's current client.
C27_ReconfigureActivates ==
    /\ last.op = "configure"
            => /\ store.isPollingEnabled
               /\ store.lastConsecutiveFailure = 0
               /\ store.pollingInterval \in timers
               /\ clients[store.client].config = last.config
    /\ (last.op = "callOk" /\ last.issued # "none")
            => clients[last.c].config = clients[store.client].config

\* C28: a step of the client's configure(config) replaces the connection
\* parameters, flags the client disconnected and leaves its failure counter
\* and remembered repeat mode (and every other client) as they were; and a
\* step that takes a counter from above 0 to 0 is resetFailureCount or a
\* successful call.
C28_ClientConfigureFrame ==
    [][/\ last'.op = "clientConfigure"
            => clients' = [clients EXCEPT
                    ![last'.c] = [@ EXCEPT !.config = last'.config,
                                           !.isConnectedState = FALSE]]
       /\ \A c \in 1..Len(clients) :
            (clients[c].consecutiveFailures > 0 /\ clients'[c].consecutiveFailures = 0)
                => \/ last'.op \in {"reconnectStarted", "actionOk"}
                   \/ last'.op = "reconnect" /\ last'.result]_vars

C28_Witness ==
    /\ last.op = "clientConfigure"
    /\ last.config = MaxClients
    /\ clients[last.c].config = MaxClients
    /\ ~clients[last.c].isConnectedState
    /\ clients[last.c].consecutiveFailures > 0
    /\ clients[last.c].repeatMode = "track"

\* the store fields other than the one `endpoint` writes show snapshot e
OthersShowSnapshot(s, e, endpoint) ==
    /\ s.track = e.track
    /\ \A other \in {"setVolume", "setPlaying", "setRepeat", "setShuffle", "seek"} :
            other # endpoint => StoreField(s, other) = SnapshotField(e, other)

C30_PollSparesSeek ==
    [][(last'.op = "pollApplied" /\ store.isSettingPosition /\ SeekInFlight)
            => /\ store'.mPosition = store.mPosition
               /\ store'.isSettingPosition]_vars

\* C31: poll snapshots are applied in the order their ticks started: a step
\* that applies a snapshot right after another one applies the snapshot of a
\* tick that started no earlier.
C31_SnapshotsInTickOrder ==
    [][(last.op = "pollApplied" /\ last'.op = "pollApplied")
            => last'.startedAt >= last.startedAt]_vars

\* C32: a step that applies the optimistic patch of setPlaying leaves the
\* effective position, read at the same clock instant, as it was before the
\* patch, for every argument and every prior value of isPlaying.
C32_SetPlayingKeepsPosition ==
    [][(/\ last'.op = "actionStarted"
        /\ last'.endpoint = "setPlaying"
        /\ now' = now)
            => position(store', now') = position(store, now)]_vars

\* C33: every snapshot getPlayerState returned (the one a poll has just
\* applied) has isConnected = true.
C33_ReturnedSnapshotConnected ==
    last.op = "pollApplied" => last.e.isConnected

\* the setRepeat calls in flight, and the mode the latest of them asked for
RepeatCalls ==
    {i \in 1..Len(inflight) :
        inflight[i].kind = "action" /\ inflight[i].endpoint = "setRepeat"}

RequestedRepeat ==
    inflight[CHOOSE i \in RepeatCalls : \A j \in RepeatCalls : j <= i].args

\* C34: when a poll that read the remote repeat flag as 1 has just been
\* applied and the most recent setRepeat request, its call still in flight,
\* asked for track or playlist, the snapshot and the store report that mode.
C34_RepeatOnReportsRequest ==
    (/\ last.op = "pollApplied"
     /\ last.repeat = 1
     /\ RepeatCalls # {}
     /\ RequestedRepeat \in {"track", "playlist"})
        => /\ last.e.repeat = RequestedRepeat
           /\ store.repeat = RequestedRepeat

\* C35: at most one polling timer is scheduled at any time.
C35_OneTimer == Cardinality(timers) <= 1

C35_Witness ==
    /\ last.op = "startStatePolling"
    /\ last.had # 0
    /\ Cardinality(timers) = 1
    /\ store.pollingInterval \in timers
    /\ Len(clients) > 1

\* C36: whenever isPollingEnabled is true, a polling timer is scheduled.
C36_EnabledHasTimer ==
    store.isPollingEnabled => store.pollingInterval \in timers /\ timers # {}

\* C37: a step in which a seek request is rejected by the seek guard leaves
\* every field of the store as it was, the raw position and its anchor
\* included, starts no call and emits no change.
C37_RejectedSeekChangesNothing ==
    [][last'.op = "seekIgnored"
            => /\ store' = store
               /\ inflight' = inflight
               /\ ~last'.emitted]_vars

C37_Witness ==
    /\ last.op = "seekIgnored"
    /\ store.isSettingPosition
    /\ last.args = MaxPos
    /\ store.mPosition # MaxPos
    /\ SeekInFlight

\* C38: when the call of a seek has just completed, with success or with
\* failure, isSettingPosition is false, so that the guard lets the next seek
\* request through.
C38_SeekReleasesGuard ==
    (\/ last.op = "actionOk" /\ last.endpoint = "seek"
     \/ last.op = "callFailed" /\ last.by = "seek")
        => ~store.isSettingPosition

C38_Witness ==
    /\ last.op = "actionOk"
    /\ last.endpoint = "seek"
    /\ last.args = MaxPos
    /\ store.mPosition = MaxPos
    /\ ~store.isSettingPosition
    /\ ~SeekInFlight

\* C39: a step in which the hasid3tag or getid3tag call of a poll fails (the
\* ten state calls had succeeded and reported a title or a file) applies the
\* poll's snapshot, with the track built from the parsed title.
C39_MetadataFailureKeepsPoll ==
    [][\A i \in 1..Len(inflight) :
        (/\ inflight[i].kind = "tick"
         /\ inflight[i].phase \in {"hastag", "id3"}
         /\ inflight' = Remove(inflight, i)
         /\ failedCalls'[inflight[i].c].run > failedCalls[inflight[i].c].run)
            => /\ last'.op = "pollApplied"
               /\ last'.e.track = "parsed"
               /\ store'.track = "parsed"]_vars

C39_Witness ==
    /\ last.op = "pollApplied"
    /\ failedCalls[last.c].run > 0
    /\ clients[last.c].consecutiveFailures > 0
    /\ last.e.track = "parsed"
    /\ store.track = "parsed"

====
